---------------------------- MODULE Spec2Model ----------------------------
(***************************************************************************)
(* PreCheck AI (app_real.py): the content-risk analysis pipeline of the    *)
(* Streamlit script.  A session presses "Run Full Check"; the handler      *)
(* writes the video to a fixed path, extracts the audio, transcribes it,   *)
(* scores the transcript against the reference documents, screens it for   *)
(* sensitive keywords, stores the result in the session state and removes  *)
(* the temporary files.  The Results tab renders the stored result.        *)
(*                                                                         *)
(* Text is a sequence of one-character strings, so that lower-casing,      *)
(* substring search, splitting and edit distance are computed rather than  *)
(* assumed.  A character outside ASCII is written "uXXXX".                 *)
(***************************************************************************)
EXTENDS Integers, Sequences, FiniteSets, TLC

\* ------------------------------------------------------------------ text

UpperCase ==
   <<"A","B","C","D","E","F","G","H","I","J","K","L","M","N","O","P","Q","R","S","T","U","V","W","X","Y","Z">>

LowerCase ==
   <<"a","b","c","d","e","f","g","h","i","j","k","l","m","n","o","p","q","r","s","t","u","v","w","x","y","z">>

\* str.lower() on one character: A-Z map to a-z, everything else is kept
\* (the Tamil code points of the keyword list have no case).
LowerTable ==
   [c \in {UpperCase[i] : i \in 1..Len(UpperCase)} |->
      LowerCase[CHOOSE i \in 1..Len(UpperCase) : UpperCase[i] = c]]

LowerChar(c) ==
   IF c \in DOMAIN LowerTable THEN LowerTable[c] ELSE c

\* str.lower()
Lower(text) ==
   [i \in 1..Len(text) |-> LowerChar(text[i])]

\* text.startswith(needle)
StartsWith(text, needle) ==
   /\ Len(needle) <= Len(text)
   /\ SubSeq(text, 1, Len(needle)) = needle

RECURSIVE Contains(_, _)
\* needle in text: a left-to-right scan for the first offset that matches.
Contains(needle, text) ==
   IF Len(needle) > Len(text) THEN FALSE
   ELSE IF StartsWith(text, needle) THEN TRUE
   ELSE Contains(needle, Tail(text))

\* text.endswith(suffix)
EndsWith(text, suffix) ==
   /\ Len(suffix) <= Len(text)
   /\ SubSeq(text, Len(text) - Len(suffix) + 1, Len(text)) = suffix

\* ------------------------------------------------------------ input pools

TextClean == <<"b","e"," ","k","i","n","d">>
TextDirty == <<"i"," ","k","i","l","l"," ","y","o","u">>
TextOther == <<"k","i","l","l"," ","h","i","m">>

\* What the model can return as result["text"], the empty string included.
TranscriptPool == {<<>>, TextClean, TextDirty}

\* Uploaded reference documents: the name, the text its bytes hold and
\* whether the pdf or docx extractor raises on it.  The uploader accepts
\* f.TXT, which no branch of read_reference_file matches.
RefPool ==
   { [name |-> <<"a",".","t","x","t">>, text |-> TextOther, corrupt |-> FALSE],
     [name |-> <<"b",".","p","d","f">>, text |-> TextClean, corrupt |-> FALSE],
     [name |-> <<"e",".","d","o","c","x">>, text |-> <<>>, corrupt |-> TRUE],
     [name |-> <<"f",".","T","X","T">>, text |-> TextClean, corrupt |-> FALSE] }

\* ------------------------------------------------------ sensitivity screener

\* The keyword list of fake_sensitive_check, in its order and casing.
keywords ==
   <<
      <<"k","i","l","l">>,
      <<"m","u","r","d","e","r">>,
      <<"a","t","t","a","c","k">>,
      <<"s","h","o","o","t">>,
      <<"g","u","n">>,
      <<"k","n","i","f","e">>,
      <<"b","o","m","b">>,
      <<"b","l","o","o","d">>,
      <<"f","i","g","h","t">>,
      <<"v","i","o","l","e","n","c","e">>,
      <<"t","e","r","r","o","r">>,
      <<"t","h","r","e","a","t">>,
      <<"d","e","a","t","h">>,
      <<"s","u","i","c","i","d","e">>,
      <<"r","a","p","e">>,
      <<"a","b","u","s","e">>,
      <<"h","a","t","e">>,
      <<"r","a","c","i","s","t">>,
      <<"c","a","s","t","e">>,
      <<"r","e","l","i","g","i","o","n">>,
      <<"s","l","u","r">>,
      <<"d","i","s","c","r","i","m","i","n","a","t","e">>,
      <<"i","n","s","u","l","t">>,
      <<"d","r","u","g">>,
      <<"c","o","c","a","i","n","e">>,
      <<"h","e","r","o","i","n">>,
      <<"w","e","e","d">>,
      <<"a","l","c","o","h","o","l">>,
      <<"d","r","i","n","k">>,
      <<"s","m","o","k","e">>,
      <<"l","i","q","u","o","r">>,
      <<"s","e","x">>,
      <<"p","o","r","n">>,
      <<"n","u","d","e">>,
      <<"f","u","c","k">>,
      <<"s","h","i","t">>,
      <<"b","i","t","c","h">>,
      <<"a","s","s","h","o","l","e">>,
      <<"b","a","s","t","a","r","d">>,
      <<"d","i","c","k">>,
      <<"p","u","s","s","y">>,
      <<"b","o","o","b","s">>,
      <<"c","o","c","k">>,
      <<"s","c","r","e","w">>,
      <<"w","h","o","r","e">>,
      <<"s","l","u","t">>,
      <<"u0BB5","u0BC6","u0BB1","u0BC1","u0BAA","u0BCD","u0BAA","u0BC1">>,
      <<"u0B95","u0BCA","u0BB2","u0BC8">>,
      <<"u0BA4","u0BBE","u0B95","u0BCD","u0B95","u0BC1","u0BA4","u0BB2","u0BCD">>,
      <<"u0B95","u0BC1","u0BA3","u0BCD","u0B9F","u0BC1">>,
      <<"u0B95","u0BA4","u0BCD","u0BA4","u0BBF">>,
      <<"u0B87","u0BA9","u0BB5","u0BC6","u0BB1","u0BBF">>,
      <<"u0BAA","u0BBE","u0BB2","u0BBF","u0BAF","u0BB2","u0BCD">>,
      <<"u0B85","u0BB5","u0BAE","u0BA4","u0BBF","u0BAA","u0BCD","u0BAA","u0BC1">>,
      <<"u0BAE","u0BB0","u0BC1","u0BA8","u0BCD","u0BA4","u0BC1">>,
      <<"u0B95","u0BC1","u0B9F","u0BBF">>,
      <<"u0BAE","u0BCB","u0B9A","u0B9F","u0BBF">>,
      <<"u0BA4","u0BC2","u0BA3","u0BCD","u0B9F","u0BC1","u0BA4","u0BB2","u0BCD">>,
      <<"u0B9A","u0BBE","u0BB5","u0BC1">>,
      <<"u0B85","u0B9F","u0BBF","u0B9A","u0BCD","u0B9A","u0BC1">>,
      <<"u0B9A","u0BBE","u0BA3","u0BAE","u0BCD">>
   >>
\* The membership test without lower-casing the text: k.lower() in text.
KeywordHitCaseSensitive(k, text) ==
   Contains(Lower(k), text)

\* The membership test of the comprehension: k.lower() in text.lower().
KeywordHit(k, text) ==
   Contains(Lower(k), Lower(text))

RECURSIVE ScanKeywords(_, _, _)
\* The list comprehension, keyword by keyword from index i on.
ScanKeywords(ks, i, text) ==
   IF i > Len(ks) THEN <<>>
   ELSE IF KeywordHit(ks[i], text)
        THEN <<ks[i]>> \o ScanKeywords(ks, i + 1, text)
        ELSE ScanKeywords(ks, i + 1, text)

\* found = [k for k in keywords if k.lower() in text.lower()]
FoundKeywords(text) ==
   ScanKeywords(keywords, 1, text)

\* The hit lists of the transcripts of the pool, computed once.
FoundCache ==
   [text \in TranscriptPool |-> FoundKeywords(text)]

fake_sensitive_check(text) ==
   IF text \in DOMAIN FoundCache THEN FoundCache[text] ELSE FoundKeywords(text)

\* -------------------------------------------------------- similarity scorer

\* The Tamil code points of the keyword list, in code-point order.
TamilChars ==
   <<"u0B85","u0B87","u0B95","u0B9A","u0B9F","u0BA3","u0BA4","u0BA8","u0BA9",
     "u0BAA","u0BAE","u0BAF","u0BB0","u0BB1","u0BB2","u0BB5","u0BBE","u0BBF",
     "u0BC1","u0BC2","u0BC6","u0BC8","u0BCA","u0BCB","u0BCD">>

\* The characters of the model in code-point order: space, A-Z, a-z, Tamil.
CodeOrder ==
   <<" ">> \o UpperCase \o LowerCase \o TamilChars

OrdTable ==
   [c \in {CodeOrder[i] : i \in 1..Len(CodeOrder)} |->
      CHOOSE i \in 1..Len(CodeOrder) : CodeOrder[i] = c]

Ord(c) ==
   OrdTable[c]

RECURSIVE StrLess(_, _)
\* a < b on str: the first differing code point decides, a proper prefix is less.
StrLess(a, b) ==
   IF Len(b) = 0 THEN FALSE
   ELSE IF Len(a) = 0 THEN TRUE
   ELSE IF Head(a) # Head(b) THEN Ord(Head(a)) < Ord(Head(b))
   ELSE StrLess(Tail(a), Tail(b))

RECURSIVE SplitFrom(_, _, _)
\* str.split(): the maximal runs of characters that are not whitespace.
SplitFrom(text, i, word) ==
   IF i > Len(text)
   THEN IF word = <<>> THEN <<>> ELSE <<word>>
   ELSE IF text[i] = " "
        THEN (IF word = <<>> THEN <<>> ELSE <<word>>) \o SplitFrom(text, i + 1, <<>>)
        ELSE SplitFrom(text, i + 1, Append(word, text[i]))

Split(text) ==
   SplitFrom(text, 1, <<>>)

\* set(tokens)
TokenSet(text) ==
   {Split(text)[i] : i \in 1..Len(Split(text))}

RECURSIVE Sorted(_)
\* sorted(tokens)
Sorted(S) ==
   IF S = {} THEN <<>>
   ELSE LET least == CHOOSE a \in S : \A b \in S \ {a} : StrLess(a, b)
        IN  <<least>> \o Sorted(S \ {least})

RECURSIVE Join(_)
\* " ".join(tokens)
Join(tokens) ==
   IF Len(tokens) = 0 THEN <<>>
   ELSE IF Len(tokens) = 1 THEN tokens[1]
   ELSE tokens[1] \o <<" ">> \o Join(Tail(tokens))

Max2(a, b) ==
   IF a >= b THEN a ELSE b

RECURSIVE LcsRow(_, _, _, _)
\* One row of the longest-common-subsequence table: cur[j + 1] is the LCS
\* length of the prefix of a ending at character c and the first j
\* characters of b; prev is the row before it.
LcsRow(prev, c, b, cur) ==
   IF Len(cur) = Len(b) + 1 THEN cur
   ELSE LET j == Len(cur)
        IN  LcsRow(prev, c, b,
                   Append(cur, IF c = b[j] THEN prev[j] + 1
                               ELSE Max2(prev[j + 1], cur[j])))

RECURSIVE LcsFrom(_, _, _, _)
LcsFrom(a, b, i, prev) ==
   IF i > Len(a) THEN prev[Len(b) + 1]
   ELSE LcsFrom(a, b, i + 1, LcsRow(prev, a[i], b, <<0>>))

Lcs(a, b) ==
   LcsFrom(a, b, 1, [j \in 1..(Len(b) + 1) |-> 0])

\* Indel distance: insertions and deletions only.
IndelDistance(a, b) ==
   Len(a) + Len(b) - 2 * Lcs(a, b)

RECURSIVE Gcd(_, _)
Gcd(a, b) ==
   IF b = 0 THEN a ELSE Gcd(b, a % b)

\* A score is an exact fraction num/den in lowest terms (the code holds an
\* int or a float; the thresholds 40 and 75 compare exactly on fractions).
Frac(n, d) ==
   LET g == Gcd(n, d) IN [num |-> n \div g, den |-> d \div g]

Whole(n) ==
   [num |-> n, den |-> 1]

ScoreLess(a, b) ==
   a.num * b.den < b.num * a.den

\* a > n for a whole number n
ScoreAbove(a, n) ==
   a.num > n * a.den

\* 100 - 100 * dist / lensum, and 100 when lensum is 0
NormDistance(dist, lensum) ==
   IF lensum = 0 THEN Whole(100)
   ELSE Frac(100 * (lensum - dist), lensum)

\* max(a, b) on scores: the first of the largest
MaxScore(a, b) ==
   IF ScoreLess(a, b) THEN b ELSE a

\* fuzz.token_set_ratio(s1, s2) with no processor and no score cutoff.
token_set_ratio(s1, s2) ==
   LET tokens_a == TokenSet(s1)
       tokens_b == TokenSet(s2)
       intersect == tokens_a \cap tokens_b
       diff_ab == tokens_a \ tokens_b
       diff_ba == tokens_b \ tokens_a
       diff_ab_joined == Join(Sorted(diff_ab))
       diff_ba_joined == Join(Sorted(diff_ba))
       ab_len == Len(diff_ab_joined)
       ba_len == Len(diff_ba_joined)
       sect_len == Len(Join(Sorted(intersect)))
       sep == IF sect_len # 0 THEN 1 ELSE 0
       sect_ab_len == sect_len + sep + ab_len
       sect_ba_len == sect_len + sep + ba_len
       result == NormDistance(IndelDistance(diff_ab_joined, diff_ba_joined),
                              sect_ab_len + sect_ba_len)
       sect_ab_ratio == NormDistance(sep + ab_len, sect_len + sect_ab_len)
       sect_ba_ratio == NormDistance(sep + ba_len, sect_len + sect_ba_len)
   IN  IF tokens_a = {} \/ tokens_b = {} THEN Whole(0)
       ELSE IF intersect # {} /\ (diff_ab = {} \/ diff_ba = {}) THEN Whole(100)
       ELSE IF sect_len = 0 THEN result
       ELSE MaxScore(MaxScore(result, sect_ab_ratio), sect_ba_ratio)

\* The texts a reference can contribute: those of the pool, and "".
RefTexts ==
   {d.text : d \in RefPool} \cup {<<>>}

\* The scores of the pool's transcripts against the pool's texts, computed once.
RatioCache ==
   [pair \in TranscriptPool \X RefTexts |-> token_set_ratio(pair[1], pair[2])]

calculate_similarity(text1, text2) ==
   IF <<text1, text2>> \in DOMAIN RatioCache
   THEN RatioCache[<<text1, text2>>]
   ELSE token_set_ratio(text1, text2)

\* ------------------------------------------------------------ risk level

\* The risk metric with the upper threshold taken inclusively.
RiskLevelInclusive(plag_percent, sensitive_words) ==
   IF ~ScoreLess(plag_percent, Whole(75)) \/ sensitive_words # <<>> THEN "High"
   ELSE IF ScoreAbove(plag_percent, 40) THEN "Medium"
   ELSE "Low"

\* Results tab: the risk metric from the stored score and hit list.
RiskLevel(plag_percent, sensitive_words) ==
   IF ScoreAbove(plag_percent, 75) \/ sensitive_words # <<>> THEN "High"
   ELSE IF ScoreAbove(plag_percent, 40) THEN "Medium"
   ELSE "Low"

\* ------------------------------------------------------- reference loader

ExtTxt == <<".","t","x","t">>
ExtPdf == <<".","p","d","f">>
ExtDocx == <<".","d","o","c","x">>

TempVideo == "temp_video.mp4"
TempAudio == "temp_audio.wav"
TempRefPdf == "temp_ref.pdf"
TempRefDocx == "temp_ref.docx"

Paths == {TempVideo, TempAudio, TempRefPdf, TempRefDocx}

\* The branch read_reference_file takes for a file name.
RefKind(name) ==
   IF EndsWith(name, ExtTxt) THEN "txt"
   ELSE IF EndsWith(name, ExtPdf) THEN "pdf"
   ELSE IF EndsWith(name, ExtDocx) THEN "docx"
   ELSE "other"

\* The fixed path the pdf and docx branches write the upload to.
TempRefPath(name) ==
   IF RefKind(name) = "pdf" THEN TempRefPdf ELSE TempRefDocx

\* read_reference_file for a name that takes neither the pdf nor the docx
\* branch: the decoded bytes of a .txt, and "" for any other name.
ReadPlain(file) ==
   IF RefKind(file.name) = "txt" THEN file.text ELSE <<>>

\* ------------------------------------------------------------ plagiarism

RandLow == 15
RandHigh == 50

\* A draw whose upper end is one too far.
RandomRangeWide ==
   RandLow..(RandHigh + 1)

\* random.randint(15, 50): the values it can return.
RandomRange ==
   RandLow..RandHigh

RECURSIVE MaxOf(_)
\* max(similarities) of a non-empty list
MaxOf(sims) ==
   IF Len(sims) = 1 THEN sims[1]
   ELSE MaxScore(sims[1], MaxOf(Tail(sims)))

\* A check_plagiarism that returns the score of the last reference.
PlagiarismResultLast(similarities, r) ==
   IF similarities # <<>> THEN similarities[Len(similarities)] ELSE Whole(r)

\* What check_plagiarism returns once its loop is over; r is the draw the
\* fallback would make.
PlagiarismResult(similarities, r) ==
   IF similarities # <<>> THEN MaxOf(similarities) ELSE Whole(r)

\* ------------------------------------------------------------------ inputs

Sessions == {1, 2}

\* The session of the sequential specification: one analysis in flight.
SeqSessions == {1}

MaxRefs == 2
MaxRuns == 2
MaxConcRefs == 1
MaxConcRuns == 1

RefLists(n) ==
   UNION {[1..k -> RefPool] : k \in 0..n}

\* ------------------------------------------------------------------- state

VARIABLES
   fs,               \* path -> [owner, data]: owner 0 when the file is absent
   pc,               \* session -> where its script run stands
   runs,             \* session -> analyses started
   reference_files,  \* session -> the sidebar uploads of the run
   audio_ok,         \* session -> extract_audio returned True in this run
   transcript,       \* session -> what transcribe_audio returned
   similarities,     \* session -> the list check_plagiarism builds
   ref_text,         \* session -> the text the extractor returned
   plag_percent,     \* session -> what check_plagiarism returned
   results,          \* session -> st.session_state["results"], <<>> when unset
   stored,           \* session -> this run wrote the results
   errors,           \* session -> what this script run reported to the user
   risk,             \* session -> the risk metric the Results tab shows
   stages,           \* session -> the stages this run invoked, in order
   call              \* a direct call of fake_sensitive_check: [text, done, found]

vars ==
   <<fs, pc, runs, reference_files, audio_ok, transcript, similarities,
     ref_text, plag_percent, results, stored, errors, risk, stages, call>>

Absent == [owner |-> 0, data |-> <<>>]

Exists(path) == fs[path].owner # 0

\* transcribe_audio returns a string or None.
None == [some |-> FALSE, text |-> <<>>]
Some(text) == [some |-> TRUE, text |-> text]

\* if transcript:
Truthy(tr) == tr.some /\ tr.text # <<>>

NoCall == [text |-> <<>>, done |-> FALSE, found |-> <<>>]

\* The Results tab: the risk metric, or "none" for "No analysis yet".
Tab3(res) ==
   IF res = <<>> THEN "none"
   ELSE RiskLevel(res[1].plag_percent, res[1].sensitive_words)

\* Nothing has run: no temporary file, every session before its first click.
Fresh ==
   /\ fs = [p \in Paths |-> Absent]
   /\ pc = [s \in Sessions |-> "idle"]
   /\ runs = [s \in Sessions |-> 0]
   /\ reference_files = [s \in Sessions |-> <<>>]
   /\ audio_ok = [s \in Sessions |-> FALSE]
   /\ transcript = [s \in Sessions |-> None]
   /\ similarities = [s \in Sessions |-> <<>>]
   /\ ref_text = [s \in Sessions |-> <<>>]
   /\ plag_percent = [s \in Sessions |-> Whole(0)]
   /\ stored = [s \in Sessions |-> FALSE]
   /\ errors = [s \in Sessions |-> {}]
   /\ risk = [s \in Sessions |-> "none"]
   /\ stages = [s \in Sessions |-> <<>>]

Init ==
   /\ Fresh
   /\ results = [s \in Sessions |-> <<>>]
   /\ call = NoCall

\* ----------------------------------------------------------------- actions

\* An exception nothing catches: the script run stops where it is, the
\* exception is shown, and nothing after it (the cleanup, the Results tab)
\* runs.
Raise(s) ==
   /\ pc' = [pc EXCEPT ![s] = "idle"]
   /\ errors' = [errors EXCEPT ![s] = @ \cup {"exception"}]
   /\ risk' = [risk EXCEPT ![s] = "none"]

\* "Run Full Check" is pressed: the video is written to the fixed path.
Begin(s, refs) ==
   /\ pc[s] = "idle"
   /\ fs' = [fs EXCEPT ![TempVideo] = [owner |-> s, data |-> <<>>]]
   /\ pc' = [pc EXCEPT ![s] = "extract"]
   /\ runs' = [runs EXCEPT ![s] = @ + 1]
   /\ reference_files' = [reference_files EXCEPT ![s] = refs]
   /\ audio_ok' = [audio_ok EXCEPT ![s] = FALSE]
   /\ transcript' = [transcript EXCEPT ![s] = None]
   /\ similarities' = [similarities EXCEPT ![s] = <<>>]
   /\ ref_text' = [ref_text EXCEPT ![s] = <<>>]
   /\ plag_percent' = [plag_percent EXCEPT ![s] = Whole(0)]
   /\ stored' = [stored EXCEPT ![s] = FALSE]
   /\ errors' = [errors EXCEPT ![s] = {}]
   /\ risk' = [risk EXCEPT ![s] = "none"]
   /\ stages' = [stages EXCEPT ![s] = <<>>]
   /\ UNCHANGED <<results, call>>

\* One analysis at a time.
Click(s) ==
   /\ \A o \in Sessions : pc[o] = "idle"
   /\ runs[s] < MaxRuns
   /\ \E refs \in RefLists(MaxRefs) : Begin(s, refs)

\* Another session may be in the middle of its own analysis.
ClickConcurrent(s) ==
   /\ runs[s] < MaxConcRuns
   /\ \E refs \in RefLists(MaxConcRefs) : Begin(s, refs)

\* A handler that goes on whatever extract_audio returned.
AfterExtractUnchecked(ok) ==
   "transcribe"

\* if extract_audio(video_path, audio_path): ... else: st.error(...)
AfterExtract(ok) ==
   IF ok THEN "transcribe" ELSE "idle"

\* extract_audio: ffmpeg writes the audio file and exits 0, or fails, with
\* or without a partial output file; it cannot succeed without its input.
ExtractAudio(s) ==
   /\ pc[s] = "extract"
   /\ stages' = [stages EXCEPT ![s] = Append(@, "extract")]
   /\ \E outcome \in {"ok", "failed", "failed_partial"} :
         /\ outcome = "ok" => Exists(TempVideo)
         /\ fs' = IF outcome = "failed" THEN fs
                  ELSE [fs EXCEPT ![TempAudio] = [owner |-> s, data |-> <<>>]]
         /\ audio_ok' = [audio_ok EXCEPT ![s] = (outcome = "ok")]
         /\ pc' = [pc EXCEPT ![s] = AfterExtract(outcome = "ok")]
         /\ errors' = [errors EXCEPT ![s] =
               IF outcome = "ok" THEN @
               ELSE @ \cup {"FFmpeg error", "Audio extraction failed"}]
         /\ risk' = [risk EXCEPT ![s] =
               IF outcome = "ok" THEN @ ELSE Tab3(results[s])]
   /\ UNCHANGED <<runs, reference_files, transcript, similarities, ref_text,
                  plag_percent, results, stored, call>>

\* A handler that scores whatever transcribe_audio returned.
AfterTranscribeUnchecked(tr) ==
   "score"

\* if transcript: ... ; otherwise straight to the cleanup
AfterTranscribe(tr) ==
   IF Truthy(tr) THEN "score" ELSE "rm_video"

\* transcribe_audio, then "if transcript:".  The model raises (None is
\* returned and the error shown) or returns a text; it cannot read an audio
\* file that is not there.
Transcribe(s) ==
   /\ pc[s] = "transcribe"
   /\ stages' = [stages EXCEPT ![s] = Append(@, "transcribe")]
   /\ \E tr \in {None} \cup {Some(x) : x \in TranscriptPool} :
         /\ tr.some => Exists(TempAudio)
         /\ transcript' = [transcript EXCEPT ![s] = tr]
         /\ errors' = [errors EXCEPT ![s] =
               IF tr.some THEN @ ELSE @ \cup {"Transcription failed"}]
         /\ pc' = [pc EXCEPT ![s] = AfterTranscribe(tr)]
   /\ UNCHANGED <<fs, runs, reference_files, audio_ok, similarities, ref_text,
                  plag_percent, results, stored, risk, call>>

\* check_plagiarism is entered: without references it returns a random draw.
CheckPlagiarism(s) ==
   /\ pc[s] = "score"
   /\ stages' = [stages EXCEPT ![s] = Append(@, "score")]
   /\ IF reference_files[s] = <<>>
      THEN /\ \E r \in RandomRange :
                 plag_percent' = [plag_percent EXCEPT ![s] = Whole(r)]
           /\ pc' = [pc EXCEPT ![s] = "screen"]
      ELSE /\ pc' = [pc EXCEPT ![s] = "ref_next"]
           /\ UNCHANGED plag_percent
   /\ UNCHANGED <<fs, runs, reference_files, audio_ok, transcript, similarities,
                  ref_text, results, stored, errors, risk, call>>

\* The reference the loop of check_plagiarism is at.
CurrentRef(s) ==
   reference_files[s][Len(similarities[s]) + 1]

MoreRefs(s) ==
   Len(similarities[s]) < Len(reference_files[s])

\* One pass of the loop for a name that is neither .pdf nor .docx.
ReadPlainRef(s) ==
   /\ pc[s] = "ref_next"
   /\ MoreRefs(s)
   /\ RefKind(CurrentRef(s).name) \in {"txt", "other"}
   /\ similarities' = [similarities EXCEPT ![s] =
         Append(@, calculate_similarity(transcript[s].text, ReadPlain(CurrentRef(s))))]
   /\ UNCHANGED <<fs, pc, runs, reference_files, audio_ok, transcript, ref_text,
                  plag_percent, results, stored, errors, risk, stages, call>>

\* read_reference_file, .pdf or .docx: the upload is written to the fixed path.
WriteTempRef(s) ==
   /\ pc[s] = "ref_next"
   /\ MoreRefs(s)
   /\ RefKind(CurrentRef(s).name) \in {"pdf", "docx"}
   /\ fs' = [fs EXCEPT ![TempRefPath(CurrentRef(s).name)] =
                [owner |-> s, data |-> <<CurrentRef(s)>>]]
   /\ pc' = [pc EXCEPT ![s] = "ref_parse"]
   /\ UNCHANGED <<runs, reference_files, audio_ok, transcript, similarities,
                  ref_text, plag_percent, results, stored, errors, risk, stages,
                  call>>

\* extract_pdf_text / docx2txt.process on the fixed path: the extractor reads
\* whatever the file holds by now, and raises on a missing or corrupt file.
ParseTempRef(s) ==
   /\ pc[s] = "ref_parse"
   /\ LET path == TempRefPath(CurrentRef(s).name)
      IN  IF ~Exists(path) \/ fs[path].data[1].corrupt
          THEN /\ Raise(s)
               /\ UNCHANGED ref_text
          ELSE /\ ref_text' = [ref_text EXCEPT ![s] = fs[path].data[1].text]
               /\ pc' = [pc EXCEPT ![s] = "ref_remove"]
               /\ UNCHANGED <<errors, risk>>
   /\ UNCHANGED <<fs, runs, reference_files, audio_ok, transcript, similarities,
                  plag_percent, results, stored, stages, call>>

\* os.remove of the fixed path, then the score of this reference.
RemoveTempRef(s) ==
   /\ pc[s] = "ref_remove"
   /\ LET path == TempRefPath(CurrentRef(s).name)
      IN  IF ~Exists(path)
          THEN /\ Raise(s)
               /\ UNCHANGED <<fs, similarities>>
          ELSE /\ fs' = [fs EXCEPT ![path] = Absent]
               /\ similarities' = [similarities EXCEPT ![s] =
                     Append(@, calculate_similarity(transcript[s].text, ref_text[s]))]
               /\ pc' = [pc EXCEPT ![s] = "ref_next"]
               /\ UNCHANGED <<errors, risk>>
   /\ UNCHANGED <<runs, reference_files, audio_ok, transcript, ref_text,
                  plag_percent, results, stored, stages, call>>

\* The loop is over: check_plagiarism returns.
ReturnPlagiarism(s) ==
   /\ pc[s] = "ref_next"
   /\ ~MoreRefs(s)
   /\ \E r \in (IF similarities[s] # <<>> THEN {RandLow} ELSE RandomRange) :
         plag_percent' = [plag_percent EXCEPT ![s] =
            PlagiarismResult(similarities[s], r)]
   /\ pc' = [pc EXCEPT ![s] = "screen"]
   /\ UNCHANGED <<fs, runs, reference_files, audio_ok, transcript, similarities,
                  ref_text, results, stored, errors, risk, stages, call>>

\* What the handler writes to st.session_state["results"].
NewResults(plag, text) ==
   <<[plag_percent |-> plag,
      sensitive_words |-> fake_sensitive_check(text),
      transcript |-> text]>>

\* fake_sensitive_check and the write of the result.
ScreenAndStore(s) ==
   /\ pc[s] = "screen"
   /\ stages' = [stages EXCEPT ![s] = Append(@, "screen")]
   /\ results' = [results EXCEPT ![s] =
         NewResults(plag_percent[s], transcript[s].text)]
   /\ stored' = [stored EXCEPT ![s] = TRUE]
   /\ pc' = [pc EXCEPT ![s] = "rm_video"]
   /\ UNCHANGED <<fs, runs, reference_files, audio_ok, transcript, similarities,
                  ref_text, plag_percent, errors, risk, call>>

\* os.remove(video_path), reached whenever extraction succeeded.
RemoveVideo(s) ==
   /\ pc[s] = "rm_video"
   /\ IF ~Exists(TempVideo)
      THEN /\ Raise(s)
           /\ UNCHANGED fs
      ELSE /\ fs' = [fs EXCEPT ![TempVideo] = Absent]
           /\ pc' = [pc EXCEPT ![s] = "rm_audio"]
           /\ UNCHANGED <<errors, risk>>
   /\ UNCHANGED <<runs, reference_files, audio_ok, transcript, similarities,
                  ref_text, plag_percent, results, stored, stages, call>>

\* if os.path.exists(audio_path): os.remove(audio_path); the script then
\* runs on to the Results tab.
RemoveAudio(s) ==
   /\ pc[s] = "rm_audio"
   /\ fs' = [fs EXCEPT ![TempAudio] = Absent]
   /\ pc' = [pc EXCEPT ![s] = "idle"]
   /\ risk' = [risk EXCEPT ![s] = Tab3(results[s])]
   /\ UNCHANGED <<runs, reference_files, audio_ok, transcript, similarities,
                  ref_text, plag_percent, results, stored, errors, stages, call>>

\* A script run without the button: only the Results tab has anything to do.
Rerun(s) ==
   /\ pc[s] = "idle"
   /\ risk' = [risk EXCEPT ![s] = Tab3(results[s])]
   /\ errors' = [errors EXCEPT ![s] = {}]
   /\ UNCHANGED <<fs, pc, runs, reference_files, audio_ok, transcript,
                  similarities, ref_text, plag_percent, results, stored, stages,
                  call>>

\* The steps of the handler after the click.
Step(s) ==
   \/ ExtractAudio(s)
   \/ Transcribe(s)
   \/ CheckPlagiarism(s)
   \/ ReadPlainRef(s)
   \/ WriteTempRef(s)
   \/ ParseTempRef(s)
   \/ RemoveTempRef(s)
   \/ ReturnPlagiarism(s)
   \/ ScreenAndStore(s)
   \/ RemoveVideo(s)
   \/ RemoveAudio(s)

Next ==
   \E s \in SeqSessions : Click(s) \/ Step(s)

Spec == Init /\ [][Next]_vars

NextConcurrent ==
   \E s \in Sessions : ClickConcurrent(s) \/ Step(s)

SpecConcurrent == Init /\ [][NextConcurrent]_vars

\* ------------------------------------------- the Results tab on any result

\* Scores in steps of one half from 0 to 100: every whole percentage the
\* random draw can give and fractions such as the scorer's float results.
HalfSteps == {Frac(n, 2) : n \in 0..200}

\* A stored result with any score; its hit list is the screener's for its
\* transcript.
InitRisk ==
   /\ Fresh
   /\ call = NoCall
   /\ \E score \in HalfSteps, text \in TranscriptPool \ {<<>>} :
         results = [s \in Sessions |->
            IF s \in SeqSessions THEN NewResults(score, text) ELSE <<>>]

NextRisk ==
   \E s \in SeqSessions : Rerun(s)

SpecRisk == InitRisk /\ [][NextRisk]_vars

\* ------------------------------------------- the screener on any transcript

MaxChunks == 3

\* Pieces of transcripts: keywords in other casings, split over pieces,
\* inside a longer word, and a Tamil keyword.
ChunkPool ==
   { <<"k","i">>, <<"L","L">>, <<"K","i","l","l">>, <<"g","U","n">>, <<"s">>, << " " >>,
     <<"u0B95","u0BC1","u0B9F","u0BBF">> }

RECURSIVE Concat(_)
Concat(pieces) ==
   IF pieces = <<>> THEN <<>> ELSE Head(pieces) \o Concat(Tail(pieces))

ScreenTexts ==
   {Concat(pieces) : pieces \in UNION {[1..k -> ChunkPool] : k \in 0..MaxChunks}}

InitScreen ==
   /\ Fresh
   /\ results = [s \in Sessions |-> <<>>]
   /\ \E text \in ScreenTexts : call = [NoCall EXCEPT !.text = text]

\* found = fake_sensitive_check(text)
CallScreen ==
   /\ ~call.done
   /\ call' = [call EXCEPT !.done = TRUE, !.found = fake_sensitive_check(call.text)]
   /\ UNCHANGED <<fs, pc, runs, reference_files, audio_ok, transcript,
                  similarities, ref_text, plag_percent, results, stored, errors,
                  risk, stages>>

SpecScreen == InitScreen /\ [][CallScreen]_vars

\* -------------------------------------------------------------- properties

\* The handler of session s has returned from at least one analysis.
RunEnded(s) ==
   pc[s] = "idle" /\ runs[s] > 0

\* C1: for every score and hit list of a stored result, the risk shown is
\* High iff the score is above 75 or there is a hit, Medium iff the score is
\* above 40 and at most 75 with no hit, Low iff it is at most 40 with no hit.
C1_RiskLevel ==
   \A s \in Sessions :
      (results[s] # <<>> /\ risk[s] # "none") =>
         LET n == results[s][1].plag_percent.num
             d == results[s][1].plag_percent.den
             hit == results[s][1].sensitive_words # <<>>
         IN  /\ risk[s] = "High" <=> (n > 75 * d \/ hit)
             /\ risk[s] = "Medium" <=> (n > 40 * d /\ n <= 75 * d /\ ~hit)
             /\ risk[s] = "Low" <=> (n <= 40 * d /\ ~hit)

\* C1 witness: a stored score of exactly 75 without a hit is shown as Medium.
C1_Witness ==
   \E s \in Sessions :
      /\ results[s] # <<>>
      /\ results[s][1].plag_percent = Whole(75)
      /\ results[s][1].sensitive_words = <<>>
      /\ risk[s] = "Medium"

\* C2: after an analysis ends, however it ended, neither temp_video.mp4 nor
\* temp_audio.wav exists.
C2_NoTempFilesAfterRun ==
   \A s \in Sessions :
      RunEnded(s) => ~Exists(TempVideo) /\ ~Exists(TempAudio)

\* C3: an analysis ends either with a complete stored result and no failure
\* reported, or with a failure reported and nothing stored; never with
\* neither.
C3_ResultOrFailure ==
   \A s \in Sessions :
      RunEnded(s) =>
         \/ stored[s] /\ results[s] # <<>> /\ errors[s] = {}
         \/ ~stored[s] /\ errors[s] # {}

\* C4: when the extractor raises on one reference, the analysis still scores
\* every reference, stores a result and leaves no temp_ref.pdf or
\* temp_ref.docx behind.
C4_ParseFailureIsolated ==
   \A s \in Sessions :
      ( /\ RunEnded(s)
        /\ audio_ok[s]
        /\ Truthy(transcript[s])
        /\ \E i \in 1..Len(reference_files[s]) : reference_files[s][i].corrupt )
      => /\ stored[s]
         /\ Len(similarities[s]) = Len(reference_files[s])
         /\ ~Exists(TempRefPdf)
         /\ ~Exists(TempRefDocx)

\* C5: with no reference, once extraction and transcription have succeeded
\* the analysis stores a whole score between 15 and 50 and reports no error;
\* without a sensitive hit the risk it shows is Low or Medium.
C5_ZeroReferences ==
   \A s \in Sessions :
      ( /\ reference_files[s] = <<>>
        /\ audio_ok[s]
        /\ Truthy(transcript[s])
        /\ pc[s] \in {"rm_video", "rm_audio", "idle"} )
      => /\ stored[s]
         /\ results[s] # <<>>
         /\ results[s][1].plag_percent.den = 1
         /\ results[s][1].plag_percent.num >= 15
         /\ results[s][1].plag_percent.num <= 50
         /\ results[s][1].transcript = transcript[s].text
         /\ errors[s] = {}
         /\ (pc[s] = "idle" /\ results[s][1].sensitive_words = <<>>)
               => risk[s] \in {"Low", "Medium"}

\* C5 witness: an analysis without references has ended with the largest
\* draw stored and Medium shown.
C5_Witness ==
   \E s \in Sessions :
      /\ RunEnded(s)
      /\ reference_files[s] = <<>>
      /\ stored[s]
      /\ results[s][1].plag_percent = Whole(50)
      /\ results[s][1].sensitive_words = <<>>
      /\ risk[s] = "Medium"

\* The text a reference stands for: its content under one of the three
\* supported extensions, nothing under any other name.
ClaimedText(file) ==
   IF \/ EndsWith(file.name, ExtTxt)
      \/ EndsWith(file.name, ExtPdf)
      \/ EndsWith(file.name, ExtDocx)
   THEN file.text
   ELSE <<>>

\* C6: with one or more references, the stored score is the largest of the
\* scores of the transcript against each reference text, it lies between 0
\* and 100, and a reference with an unsupported extension scores 0.
C6_MaxOverReferences ==
   \A s \in Sessions :
      (stored[s] /\ reference_files[s] # <<>>) =>
         LET score == results[s][1].plag_percent
             refs == reference_files[s]
             per(i) == calculate_similarity(transcript[s].text, ClaimedText(refs[i]))
         IN  /\ \E i \in 1..Len(refs) : score = per(i)
             /\ \A i \in 1..Len(refs) : ~ScoreLess(score, per(i))
             /\ score.num >= 0
             /\ score.num <= 100 * score.den
             /\ \A i \in 1..Len(refs) :
                   ClaimedText(refs[i]) = <<>> => similarities[s][i] = Whole(0)

\* C6 witness: two references were scored, the first one higher than the
\* second, which has an unsupported extension, and the first one's score is
\* stored.
C6_Witness ==
   \E s \in Sessions :
      /\ RunEnded(s)
      /\ stored[s]
      /\ Len(reference_files[s]) = 2
      /\ RefKind(reference_files[s][2].name) = "other"
      /\ ScoreLess(similarities[s][2], similarities[s][1])
      /\ results[s][1].plag_percent = similarities[s][1]

\* Two characters that are the same up to case.
SameLetter(a, b) ==
   \/ a = b
   \/ \E n \in 1..Len(UpperCase) : {a, b} = {UpperCase[n], LowerCase[n]}

\* k occurs in text at some offset, case ignored.
OccursIgnoringCase(k, text) ==
   \E off \in 0..(Len(text) - Len(k)) :
      \A j \in 1..Len(k) : SameLetter(text[off + j], k[j])

\* C7: the screener returns exactly the keywords of the list that occur in
\* the transcript as a case-insensitive substring, each once, in the order
\* and the casing of the list.
C7_ScreenerExact ==
   call.done =>
      /\ \A j \in 1..Len(keywords) :
            (\E i \in 1..Len(call.found) : call.found[i] = keywords[j])
               <=> OccursIgnoringCase(keywords[j], call.text)
      /\ \A i \in 1..Len(call.found) :
            \E j \in 1..Len(keywords) : call.found[i] = keywords[j]
      /\ \A i, j \in 1..Len(call.found) :
            i < j =>
               /\ call.found[i] # call.found[j]
               /\ \E a, b \in 1..Len(keywords) :
                     a < b /\ keywords[a] = call.found[i] /\ keywords[b] = call.found[j]

\* C7 witness: "Kill gUn Kill" was screened: kill is reported once, before
\* gun, both in the casing of the list.
C7_Witness ==
   /\ call.done
   /\ call.text = <<"K","i","l","l">> \o <<"g","U","n">> \o <<"K","i","l","l">>
   /\ call.found = << <<"k","i","l","l">>, <<"g","u","n">> >>

\* The steps of the handler during which a temporary file of the run is
\* written and not yet removed.
VideoInUse == {"extract", "transcribe", "score", "ref_next", "ref_parse",
               "ref_remove", "screen", "rm_video"}

AudioInUse == (VideoInUse \cup {"rm_audio"}) \ {"extract"}

\* C8: while an analysis uses a temporary file it has written, the file at
\* that path is its own: no other analysis has written or removed it.
C8_NoSharedTempPath ==
   \A s \in Sessions :
      /\ pc[s] \in VideoInUse => fs[TempVideo].owner = s
      /\ pc[s] \in AudioInUse => fs[TempAudio].owner = s
      /\ pc[s] \in {"ref_parse", "ref_remove"} =>
            fs[TempRefPath(CurrentRef(s).name)].owner = s

StageOrder == <<"extract", "transcribe", "score", "screen">>

\* C9: the stages of a run are invoked in the order extraction,
\* transcription, scoring, screening; transcription only after extraction
\* succeeded, scoring, screening and the write of the result only after
\* transcription returned a transcript; a failure stops the later stages.
C9_StageOrder ==
   \A s \in Sessions :
      /\ Len(stages[s]) <= Len(StageOrder)
      /\ stages[s] = SubSeq(StageOrder, 1, Len(stages[s]))
      /\ Len(stages[s]) >= 2 => audio_ok[s]
      /\ pc[s] = "transcribe" => audio_ok[s] /\ Exists(TempAudio)
      /\ Len(stages[s]) >= 3 => Truthy(transcript[s])
      /\ stored[s] => stages[s] = StageOrder
      /\ (RunEnded(s) /\ ~audio_ok[s]) => stages[s] = <<"extract">>
      /\ (RunEnded(s) /\ audio_ok[s] /\ ~Truthy(transcript[s]))
            => stages[s] = <<"extract", "transcribe">>

\* C9 witness: a run whose transcription failed has ended after two stages,
\* with nothing stored.
C9_Witness ==
   \E s \in Sessions :
      /\ RunEnded(s)
      /\ audio_ok[s]
      /\ transcript[s] = None
      /\ stages[s] = <<"extract", "transcribe">>
      /\ ~stored[s]

\* C10: the stored result changes only in the step that stores the result of
\* a run whose extraction and transcription both succeeded, and it becomes
\* that run's result; every other step, of a failing run in particular,
\* leaves it as it was.
C10_StoredOnlyBySuccess ==
   [][\A s \in Sessions :
         results'[s] # results[s] =>
            /\ pc[s] = "screen"
            /\ audio_ok[s]
            /\ Truthy(transcript[s])
            /\ stored'[s]
            /\ results'[s] # <<>>
            /\ results'[s][1].transcript = transcript[s].text
            /\ results'[s][1].plag_percent = plag_percent[s]]_vars

\* C10 witness: the second run of a session has failed and the Results tab
\* still shows the result the first run stored.
C10_Witness ==
   \E s \in Sessions :
      /\ RunEnded(s)
      /\ runs[s] = 2
      /\ ~stored[s]
      /\ errors[s] # {}
      /\ results[s] # <<>>
      /\ risk[s] = Tab3(results[s])
      /\ risk[s] # "none"

=============================================================================
